---- MODULE Spec2Model ----
(***************************************************************************)
(* A model of the scene-graph core of TrenchBroom: BrushNode               *)
(* (src/common/src/Model/BrushNode.cpp) and EntityNode                     *)
(* (src/unnamed/part_000), with the Node base class, Brush, BrushFace,     *)
(* PickResult and the vm library reduced to what the two classes call.     *)
(*                                                                         *)
(* Geometry is one-dimensional: a bbox3 is an interval [min, max], a       *)
(* merge is the interval hull.  The outcome of a ray test that lives in    *)
(* code outside the two classes (vm::intersect_ray_bbox,                   *)
(* BrushFace::intersectWithRay, EntityModel::intersect, vm::invert,        *)
(* EditorContext::visible) is an input of the action that performs it.     *)
(***************************************************************************)
EXTENDS Integers, Sequences, FiniteSets, TLC

(***************************************************************************)
(* Bounds of the model                                                     *)
(***************************************************************************)
\* number of faces of a brush
FaceCount == 3
\* width in bits of the modelled size_t (m_selectedFaceCount wraps modulo 2^SizeBits)
SizeBits == 3
\* brush bounds are intervals with integer ends in 0..MaxCoord
MaxCoord == 2
\* entity origins are 0..MaxOrigin
MaxOrigin == 1
\* hit distances are 1..MaxDist
MaxDist == 2
\* a patch grid has at most MaxGridPoints points
MaxGridPoints == 4

\* vm::bbox3{8.0}: the half size of EntityNode::DefaultBounds
DefaultBoundsHalfSize == 8

(***************************************************************************)
(* Values                                                                  *)
(***************************************************************************)
NoNode == "nullptr"

\* an optional value is a sequence: empty (std::nullopt, nullptr), or holding the value
NullOpt == << >>

Some(v) == <<v>>

\* vm::nan: a value that no distance (all are >= 0) takes
NaN == 0 - 1

SizeMod == 2 ^ SizeBits

Box(lo, hi) == [min |-> lo, max |-> hi]

\* vm::merge of two boxes
Merge(a, b) ==
  Box(IF a.min < b.min THEN a.min ELSE b.min, IF a.max > b.max THEN a.max ELSE b.max)

\* bbox::translate
Translate(b, d) == Box(b.min + d, b.max + d)

\* bbox::contains(bbox)
BoxContainsBox(a, b) == a.min <= b.min /\ b.max <= a.max

\* bbox::intersects(bbox)
BoxIntersectsBox(a, b) == a.min <= b.max /\ b.min <= a.max

\* bbox::contains(point)
BoxContainsPoint(a, p) == a.min <= p /\ p <= a.max

DefaultBounds == Box(0 - DefaultBoundsHalfSize, DefaultBoundsHalfSize)

(***************************************************************************)
(* The nodes of the scene: one node of each classification                 *)
(***************************************************************************)
Nodes == {"W", "L", "G", "E", "B", "P"}

Kind(n) ==
  CASE n = "W" -> "World"
    [] n = "L" -> "Layer"
    [] n = "G" -> "Group"
    [] n = "E" -> "Entity"
    [] n = "B" -> "Brush"
    [] n = "P" -> "Patch"

BrushBoxes == {bx \in {Box(a, b) : a \in 0..MaxCoord, b \in 0..MaxCoord} : bx.min < bx.max}

NoTexture == "notexture"

Textures == {NoTexture, "tex"}

\* a face as constructed: its selected flag, its texture, no tag in its tag mask
Face(sel, tex) == [selected |-> sel, texture |-> tex, tagMask |-> {}]

\* a brush value: its bounds and its faces in stored order
Brushes(selSets) == {[bounds |-> bx, faces |-> [i \in 1..FaceCount |-> Face(i \in s, NoTexture)]] : bx \in BrushBoxes, s \in selSets}

UnselectedBrushes == Brushes({{}})

AllBrushes == Brushes(SUBSET (1..FaceCount))

\* the bounds of the patch node's grid
PatchBounds == Box(1, 4)

\* a point entity definition with its bounds (an entity's definition is optional)
PointDefinition == [bounds |-> Box(-2, 3)]

\* an entity model frame with its bounds (an entity's model is optional)
ModelFrame == [bounds |-> Box(-12, 1)]

VARIABLES
  parent,               \* Node::m_parent of every node
  children,             \* Node::m_children of every node, in order
  m_brush,              \* BrushNode::m_brush
  m_selectedFaceCount,  \* BrushNode::m_selectedFaceCount
  m_tagMask,            \* Taggable::m_tagMask of the brush node
  m_entity,             \* EntityNodeBase::m_entity: origin, model, definition, pointEntity
  m_cachedBounds,       \* EntityNode::m_cachedBounds
  lastOp,               \* the operation that ran last, its node and what it returned
  notified,             \* the nodes whose nodePhysicalBoundsDidChange ran in it, in order
  pickResult,           \* the PickResult of the running pick query: its hits in order
  visited,              \* the nodes whose pick ran in the running pick query
  lastPick,             \* the pick call that ran last: its inputs and what it did
  ray,                  \* a ray against the brush: the outcome of each intersection test
  faceHit,              \* what findFaceHit returned for it, once called
  query,                \* the node handed to BrushNode::contains and intersects
  answer,               \* what the two returned for it, once called
  recomputed,           \* whether EntityNode::validateBounds computed bounds in the last operation
  m_game,               \* MissingModValidator::m_game: the weak reference is live or expired
  m_lastMods,           \* MissingModValidator::m_lastMods
  validateCall,         \* the doValidate call that ran last: its inputs and what it did
  created,              \* the brush node that the last construction or clone made
  findCall              \* the findNodesContaining call that ran last on the entity

treeVars == <<parent, children>>
brushVars == <<m_brush, m_selectedFaceCount>>
entityVars == <<m_entity, m_cachedBounds>>
histVars == <<lastOp, notified>>
pickVars == <<pickResult, visited, lastPick>>
hitVars == <<ray, faceHit>>
queryVars == <<query, answer>>
validatorVars == <<m_game, m_lastMods, validateCall>>
vars == <<parent, children, m_brush, m_selectedFaceCount, m_tagMask, m_entity, m_cachedBounds, lastOp, notified, pickResult, visited, lastPick, ray, faceHit, query, answer, recomputed, m_game, m_lastMods, validateCall, created, findCall>>

Op(op, node, value) == [op |-> op, node |-> node, value |-> value]

(***************************************************************************)
(* Node: the tree services the two classes call                            *)
(***************************************************************************)
\* Node::hasChildren
HasChildren(kids, n) == Len(kids[n]) > 0

\* the set of elements of a sequence
Range(s) == {s[i] : i \in 1..Len(s)}

\* a sequence without the element x
Without(s, x) == SelectSeq(s, LAMBDA y : y # x)

RECURSIVE IsAncestorOf(_, _, _)
\* Node::isAncestorOf: a is n's parent, or an ancestor of it
IsAncestorOf(par, a, n) ==
  IF par[n] = NoNode THEN FALSE
  ELSE IF par[n] = a THEN TRUE
  ELSE IsAncestorOf(par, a, par[n])

RECURSIVE PathToRoot(_, _)
\* n, its parent, ..., the root of n's tree
PathToRoot(par, n) ==
  IF par[n] = NoNode THEN <<n>> ELSE <<n>> \o PathToRoot(par, par[n])

(***************************************************************************)
(* EntityNode: the bounds cache                                            *)
(***************************************************************************)
\* Node::logicalBounds of a child an entity may hold: a brush or a patch
ChildLogicalBounds(n, brush) == IF Kind(n) = "Brush" THEN brush.bounds ELSE PatchBounds

\* BrushNode::doGetPhysicalBounds returns logicalBounds(); a patch likewise
ChildPhysicalBounds(n, brush) == ChildLogicalBounds(n, brush)

RECURSIVE MergeAll(_)
\* computeLogicalBounds / computePhysicalBounds: the hull of a non-empty list of boxes
MergeAll(boxes) ==
  IF Len(boxes) = 1 THEN boxes[1] ELSE Merge(boxes[1], MergeAll(Tail(boxes)))

\* Entity::modelTransformation applied to a box: a translation to the origin
ModelTransform(ent, box) == Translate(box, ent.origin)

\* a validateBounds that merges the model bounds into the physical bounds also
\* when the entity has children
ComputeBounds_ModelWithChildren(ent, kids, brush) ==
  LET hasModel == ent.model # NullOpt
      modelBounds ==
        IF hasModel THEN ModelTransform(ent, ent.model[1].bounds)
        ELSE ModelTransform(ent, DefaultBounds)
      definitionBounds ==
        IF ent.definition # NullOpt THEN ent.definition[1].bounds ELSE DefaultBounds
      logical ==
        IF Len(kids) > 0
        THEN MergeAll([i \in 1..Len(kids) |-> ChildLogicalBounds(kids[i], brush)])
        ELSE Translate(definitionBounds, ent.origin)
      physical ==
        IF Len(kids) > 0
        THEN MergeAll([i \in 1..Len(kids) |-> ChildPhysicalBounds(kids[i], brush)])
        ELSE logical
  IN [modelBounds |-> modelBounds,
      logicalBounds |-> logical,
      physicalBounds |-> IF hasModel THEN Merge(physical, modelBounds) ELSE physical]

\* a validateBounds that does not move the definition bounds to the origin
ComputeBounds_NoTranslate(ent, kids, brush) ==
  LET hasModel == ent.model # NullOpt
      modelBounds ==
        IF hasModel THEN ModelTransform(ent, ent.model[1].bounds)
        ELSE ModelTransform(ent, DefaultBounds)
      logical ==
        IF ent.definition # NullOpt THEN ent.definition[1].bounds ELSE DefaultBounds
  IN IF Len(kids) > 0
     THEN [modelBounds |-> modelBounds,
           logicalBounds |-> MergeAll([i \in 1..Len(kids) |-> ChildLogicalBounds(kids[i], brush)]),
           physicalBounds |-> MergeAll([i \in 1..Len(kids) |-> ChildPhysicalBounds(kids[i], brush)])]
     ELSE [modelBounds |-> modelBounds,
           logicalBounds |-> logical,
           physicalBounds |-> IF hasModel THEN Merge(logical, modelBounds) ELSE logical]

\* a validateBounds that takes the model bounds alone for the physical bounds
ComputeBounds_ModelOnly(ent, kids, brush) ==
  LET hasModel == ent.model # NullOpt
      modelBounds ==
        IF hasModel THEN ModelTransform(ent, ent.model[1].bounds)
        ELSE ModelTransform(ent, DefaultBounds)
      definitionBounds ==
        IF ent.definition # NullOpt THEN ent.definition[1].bounds ELSE DefaultBounds
      logical == Translate(definitionBounds, ent.origin)
  IN IF Len(kids) > 0
     THEN [modelBounds |-> modelBounds,
           logicalBounds |-> MergeAll([i \in 1..Len(kids) |-> ChildLogicalBounds(kids[i], brush)]),
           physicalBounds |-> MergeAll([i \in 1..Len(kids) |-> ChildPhysicalBounds(kids[i], brush)])]
     ELSE [modelBounds |-> modelBounds,
           logicalBounds |-> logical,
           physicalBounds |-> IF hasModel THEN modelBounds ELSE logical]

\* EntityNode::validateBounds past its early return: the three boxes from scratch
ComputeBounds(ent, kids, brush) ==
  LET hasModel == ent.model # NullOpt
      modelBounds ==
        IF hasModel THEN ModelTransform(ent, ent.model[1].bounds)
        ELSE ModelTransform(ent, DefaultBounds)
      definitionBounds ==
        IF ent.definition # NullOpt THEN ent.definition[1].bounds ELSE DefaultBounds
      logical == Translate(definitionBounds, ent.origin)
  IN IF Len(kids) > 0
     THEN [modelBounds |-> modelBounds,
           logicalBounds |-> MergeAll([i \in 1..Len(kids) |-> ChildLogicalBounds(kids[i], brush)]),
           physicalBounds |-> MergeAll([i \in 1..Len(kids) |-> ChildPhysicalBounds(kids[i], brush)])]
     ELSE [modelBounds |-> modelBounds,
           logicalBounds |-> logical,
           physicalBounds |-> IF hasModel THEN Merge(logical, modelBounds) ELSE logical]

\* EntityNode::validateBounds: the cache after the call
\* a validateBounds that computes the bounds on every call
ValidateBoundsRun_Always(cache, ent, kids, brush) ==
  [cache |-> Some(ComputeBounds(ent, kids, brush)), recomputed |-> TRUE]

\* EntityNode::validateBounds: the cache after the call, and whether the call
\* went past its early return and computed the bounds
ValidateBoundsRun(cache, ent, kids, brush) ==
  IF cache # NullOpt THEN [cache |-> cache, recomputed |-> FALSE]
  ELSE [cache |-> Some(ComputeBounds(ent, kids, brush)), recomputed |-> TRUE]

\* the cache after EntityNode::validateBounds
ValidateBounds(cache, ent, kids, brush) == ValidateBoundsRun(cache, ent, kids, brush).cache

\* EntityNode::invalidateBounds on the notification state s
InvalidateBounds(s) == [s EXCEPT !.cache = NullOpt]

(***************************************************************************)
(* Physical bounds notifications.  The notification state s holds the      *)
(* entity's bounds cache and the log of nodes notified so far.             *)
(***************************************************************************)
RECURSIVE NodePhysicalBoundsDidChange(_, _, _)

\* a doNodePhysicalBoundsDidChange that leaves the cache alone
EntityDoNodePhysicalBoundsDidChange_KeepsCache(s) == s

\* EntityNode::doNodePhysicalBoundsDidChange
EntityDoNodePhysicalBoundsDidChange(s) == InvalidateBounds(s)

\* a doChildPhysicalBoundsDidChange that does not signal the entity's own change
EntityDoChildPhysicalBoundsDidChange_NoSignal(par, s) == InvalidateBounds(s)

\* EntityNode::doChildPhysicalBoundsDidChange
EntityDoChildPhysicalBoundsDidChange(par, s) ==
  NodePhysicalBoundsDidChange(par, "E", InvalidateBounds(s))

\* doChildPhysicalBoundsDidChange of a world, layer or group: pass the change on
ContainerDoChildPhysicalBoundsDidChange(par, n, s) == NodePhysicalBoundsDidChange(par, n, s)

\* the virtual call doNodePhysicalBoundsDidChange on node n
DoNodePhysicalBoundsDidChange(n, s) ==
  IF Kind(n) = "Entity" THEN EntityDoNodePhysicalBoundsDidChange(s) ELSE s

\* Node::childPhysicalBoundsDidChange on node n: the virtual call doChildPhysicalBoundsDidChange
ChildPhysicalBoundsDidChange(par, n, s) ==
  IF Kind(n) = "Entity" THEN EntityDoChildPhysicalBoundsDidChange(par, s)
  ELSE ContainerDoChildPhysicalBoundsDidChange(par, n, s)

\* Node::nodePhysicalBoundsDidChange on node n, in the tree with parent links par
NodePhysicalBoundsDidChange(par, n, s) ==
  LET s1 == DoNodePhysicalBoundsDidChange(n, [s EXCEPT !.log = Append(@, n)])
  IN IF par[n] = NoNode THEN s1 ELSE ChildPhysicalBoundsDidChange(par, par[n], s1)

\* the notification state at the start of an operation
NotifyStart == [cache |-> m_cachedBounds, log |-> << >>]

(***************************************************************************)
(* Which children a node accepts                                           *)
(***************************************************************************)
\* a doCanAddChild that also takes a group
EntityDoCanAddChild_TakesGroup(child) == Kind(child) \in {"Group", "Brush", "Patch"}

\* EntityNode::doCanAddChild
EntityDoCanAddChild(child) ==
  CASE Kind(child) = "World" -> FALSE
    [] Kind(child) = "Layer" -> FALSE
    [] Kind(child) = "Group" -> FALSE
    [] Kind(child) = "Entity" -> FALSE
    [] Kind(child) = "Brush" -> TRUE
    [] Kind(child) = "Patch" -> TRUE

\* EntityNode::doCanRemoveChild
EntityDoCanRemoveChild(child) == TRUE

\* EntityNode::doRemoveIfEmpty
EntityDoRemoveIfEmpty == TRUE

\* BrushNode::doCanAddChild
BrushDoCanAddChild(child) == FALSE

\* BrushNode::doCanRemoveChild
BrushDoCanRemoveChild(child) == FALSE

\* BrushNode::doRemoveIfEmpty
BrushDoRemoveIfEmpty == FALSE

\* BrushNode::doShouldAddToSpacialIndex
BrushDoShouldAddToSpacialIndex == TRUE

\* the virtual call doCanAddChild on node p: a world takes layers, a layer and
\* a group take groups, entities, brushes and patches, a patch takes nothing
DoCanAddChild(p, child) ==
  CASE Kind(p) = "Entity" -> EntityDoCanAddChild(child)
    [] Kind(p) = "Brush" -> BrushDoCanAddChild(child)
    [] Kind(p) = "Patch" -> FALSE
    [] Kind(p) = "World" -> Kind(child) = "Layer"
    [] OTHER -> Kind(child) \in {"Group", "Entity", "Brush", "Patch"}

\* the virtual call doCanRemoveChild on node p: a world keeps its default layer
DoCanRemoveChild(p, child) ==
  CASE Kind(p) = "Entity" -> EntityDoCanRemoveChild(child)
    [] Kind(p) = "Brush" -> BrushDoCanRemoveChild(child)
    [] Kind(p) = "Patch" -> FALSE
    [] Kind(p) = "World" -> FALSE
    [] OTHER -> TRUE

\* Node::canAddChild
CanAddChild(par, p, child) ==
  child # p /\ ~IsAncestorOf(par, child, p) /\ DoCanAddChild(p, child)

\* Node::canRemoveChild
CanRemoveChild(p, child) == DoCanRemoveChild(p, child)

(***************************************************************************)
(* Operations on the tree                                                  *)
(***************************************************************************)
\* a doChildWasAdded / doChildWasRemoved that leaves the point entity flag alone
DoChildrenChanged_FlagUnchanged(par, kids, p) ==
  /\ m_entity' = m_entity
  /\ LET s == NodePhysicalBoundsDidChange(par, p, NotifyStart)
     IN m_cachedBounds' = s.cache /\ notified' = s.log

\* EntityNode::doChildWasAdded and doChildWasRemoved (the same body); for a
\* world, layer or group the child notification only signals the bounds change
DoChildrenChanged(par, kids, p) ==
  /\ m_entity' = IF Kind(p) = "Entity"
                  THEN [m_entity EXCEPT !.pointEntity = ~HasChildren(kids, p)]
                  ELSE m_entity
  /\ LET s == NodePhysicalBoundsDidChange(par, p, NotifyStart)
     IN m_cachedBounds' = s.cache /\ notified' = s.log

\* Node::addChild, called only when canAddChild allows it
AddChild(p, c) ==
  /\ parent[c] = NoNode
  /\ CanAddChild(parent, p, c)
  /\ parent' = [parent EXCEPT ![c] = p]
  /\ children' = [children EXCEPT ![p] = Append(@, c)]
  /\ DoChildrenChanged(parent', children', p)
  /\ lastOp' = Op("addChild", p, NullOpt)
  /\ UNCHANGED brushVars
  /\ UNCHANGED <<pickVars, hitVars, queryVars, m_tagMask, validatorVars, created, findCall>>
  /\ recomputed' = FALSE

\* Node::removeChild, called only when canRemoveChild allows it
RemoveChild(p, c) ==
  /\ parent[c] = p
  /\ CanRemoveChild(p, c)
  /\ parent' = [parent EXCEPT ![c] = NoNode]
  /\ children' = [children EXCEPT ![p] = Without(@, c)]
  /\ DoChildrenChanged(parent', children', p)
  /\ lastOp' = Op("removeChild", p, NullOpt)
  /\ UNCHANGED brushVars
  /\ UNCHANGED <<pickVars, hitVars, queryVars, m_tagMask, validatorVars, created, findCall>>
  /\ recomputed' = FALSE

(***************************************************************************)
(* BrushNode                                                               *)
(***************************************************************************)
\* the number of faces of a brush whose selected flag is set
NumSelected(brush) == Cardinality({i \in 1..FaceCount : brush.faces[i].selected})

\* BrushNode::updateSelectedFaceCount
UpdateSelectedFaceCount(brush) == NumSelected(brush) % SizeMod

\* BrushNode::hasSelectedFaces
HasSelectedFaces == m_selectedFaceCount > 0

\* a setBrush without its NotifyPhysicalBoundsChange
SetBrush_NoBoundsChange(nb) ==
  /\ m_brush' = nb
  /\ m_selectedFaceCount' = UpdateSelectedFaceCount(nb)
  /\ notified' = << >>
  /\ lastOp' = Op("setBrush", "B", Some(m_brush))
  /\ UNCHANGED <<treeVars, entityVars>>
  /\ UNCHANGED <<pickVars, hitVars, queryVars, m_tagMask, validatorVars, created, findCall>>
  /\ recomputed' = FALSE

\* a setBrush without its updateSelectedFaceCount
SetBrush_KeepsCount(nb) ==
  /\ m_brush' = nb
  /\ m_selectedFaceCount' = m_selectedFaceCount
  /\ LET s == NodePhysicalBoundsDidChange(parent, "B", NotifyStart)
     IN m_cachedBounds' = s.cache /\ notified' = s.log
  /\ lastOp' = Op("setBrush", "B", Some(m_brush))
  /\ UNCHANGED <<treeVars, m_entity>>
  /\ UNCHANGED <<pickVars, hitVars, queryVars, m_tagMask, validatorVars, created, findCall>>
  /\ recomputed' = FALSE

\* BrushNode::setBrush
SetBrush(nb) ==
  /\ m_brush' = nb
  /\ m_selectedFaceCount' = UpdateSelectedFaceCount(nb)
  /\ LET s == NodePhysicalBoundsDidChange(parent, "B", NotifyStart)
     IN m_cachedBounds' = s.cache /\ notified' = s.log
  /\ lastOp' = Op("setBrush", "B", Some(m_brush))
  /\ UNCHANGED <<treeVars, m_entity>>
  /\ UNCHANGED <<pickVars, hitVars, queryVars, m_tagMask, validatorVars, created, findCall>>
  /\ recomputed' = FALSE

\* BrushNode::setFaceTexture
SetFaceTexture(faceIndex, texture) ==
  /\ m_brush' = [m_brush EXCEPT !.faces[faceIndex].texture = texture]
  /\ notified' = << >>
  /\ lastOp' = Op("setFaceTexture", "B", NullOpt)
  /\ UNCHANGED <<treeVars, m_selectedFaceCount, entityVars>>
  /\ UNCHANGED <<pickVars, hitVars, queryVars, m_tagMask, validatorVars, created, findCall>>
  /\ recomputed' = FALSE

\* BrushNode::doGetLogicalBounds
BrushDoGetLogicalBounds(brush) == brush.bounds

\* BrushNode::doGetPhysicalBounds
BrushDoGetPhysicalBounds(brush) == BrushDoGetLogicalBounds(brush)

\* BrushNode::selectFace
SelectFace(faceIndex) ==
  /\ m_brush' = [m_brush EXCEPT !.faces[faceIndex].selected = TRUE]
  /\ m_selectedFaceCount' = (m_selectedFaceCount + 1) % SizeMod
  /\ notified' = << >>
  /\ lastOp' = Op("selectFace", "B", NullOpt)
  /\ UNCHANGED <<treeVars, entityVars>>
  /\ UNCHANGED <<pickVars, hitVars, queryVars, m_tagMask, validatorVars, created, findCall>>
  /\ recomputed' = FALSE

\* BrushNode::deselectFace
DeselectFace(faceIndex) ==
  /\ m_brush' = [m_brush EXCEPT !.faces[faceIndex].selected = FALSE]
  /\ m_selectedFaceCount' = (m_selectedFaceCount - 1) % SizeMod
  /\ notified' = << >>
  /\ lastOp' = Op("deselectFace", "B", NullOpt)
  /\ UNCHANGED <<treeVars, entityVars>>
  /\ UNCHANGED <<pickVars, hitVars, queryVars, m_tagMask, validatorVars, created, findCall>>
  /\ recomputed' = FALSE

(***************************************************************************)
(* EntityNode                                                              *)
(***************************************************************************)
\* EntityNode::setModelFrame
SetModelFrame(modelFrame) ==
  /\ m_entity' = [m_entity EXCEPT !.model = modelFrame]
  /\ LET s == NodePhysicalBoundsDidChange(parent, "E", NotifyStart)
     IN m_cachedBounds' = s.cache /\ notified' = s.log
  /\ lastOp' = Op("setModelFrame", "E", NullOpt)
  /\ UNCHANGED <<treeVars, brushVars>>
  /\ UNCHANGED <<pickVars, hitVars, queryVars, m_tagMask, validatorVars, created, findCall>>
  /\ recomputed' = FALSE

\* the entity's properties change (here: its origin): EntityNode::doPropertiesDidChange
PropertiesDidChange(origin) ==
  /\ m_entity' = [m_entity EXCEPT !.origin = origin]
  /\ LET s == NodePhysicalBoundsDidChange(parent, "E", NotifyStart)
     IN m_cachedBounds' = s.cache /\ notified' = s.log
  /\ lastOp' = Op("propertiesDidChange", "E", NullOpt)
  /\ UNCHANGED <<treeVars, brushVars>>
  /\ UNCHANGED <<pickVars, hitVars, queryVars, m_tagMask, validatorVars, created, findCall>>
  /\ recomputed' = FALSE

\* EntityNode::modelBounds
GetModelBounds ==
  /\ m_cachedBounds' = ValidateBounds(m_cachedBounds, m_entity, children["E"], m_brush)
  /\ recomputed' = ValidateBoundsRun(m_cachedBounds, m_entity, children["E"], m_brush).recomputed
  /\ lastOp' = Op("modelBounds", "E", Some(m_cachedBounds'[1].modelBounds))
  /\ notified' = << >>
  /\ UNCHANGED <<treeVars, brushVars, m_entity>>
  /\ UNCHANGED <<pickVars, hitVars, queryVars, m_tagMask, validatorVars, created, findCall>>

\* EntityNode::doGetPhysicalBounds
GetPhysicalBounds ==
  /\ m_cachedBounds' = ValidateBounds(m_cachedBounds, m_entity, children["E"], m_brush)
  /\ recomputed' = ValidateBoundsRun(m_cachedBounds, m_entity, children["E"], m_brush).recomputed
  /\ lastOp' = Op("physicalBounds", "E", Some(m_cachedBounds'[1].physicalBounds))
  /\ notified' = << >>
  /\ UNCHANGED <<treeVars, brushVars, m_entity>>
  /\ UNCHANGED <<pickVars, hitVars, queryVars, m_tagMask, validatorVars, created, findCall>>

\* EntityNode::doGetLogicalBounds
GetLogicalBounds ==
  /\ m_cachedBounds' = ValidateBounds(m_cachedBounds, m_entity, children["E"], m_brush)
  /\ recomputed' = ValidateBoundsRun(m_cachedBounds, m_entity, children["E"], m_brush).recomputed
  /\ lastOp' = Op("logicalBounds", "E", Some(m_cachedBounds'[1].logicalBounds))
  /\ notified' = << >>
  /\ UNCHANGED <<treeVars, brushVars, m_entity>>
  /\ UNCHANGED <<pickVars, hitVars, queryVars, m_tagMask, validatorVars, created, findCall>>

(***************************************************************************)
(* Picking.  A ray against the brush is the outcome of the tests the pick  *)
(* makes with it: vm::intersect_ray_bbox against the brush's bounds and    *)
(* BrushFace::intersectWithRay of each face, a distance or NaN.            *)
(***************************************************************************)
DistOrNaN == {NaN} \cup (1..MaxDist)

Rays == [bbox : DistOrNaN, faces : [1..FaceCount -> DistOrNaN]]

\* vm::is_nan
IsNaN(d) == d = NaN

RECURSIVE FaceLoop(_, _)
\* the loop of BrushNode::findFaceHit from face i on (faces are numbered from
\* 1): the first face whose test is not NaN, and the number of faces tested
FaceLoop(r, i) ==
  IF i > FaceCount THEN [hit |-> NullOpt, tests |-> FaceCount]
  ELSE IF ~IsNaN(r.faces[i]) THEN [hit |-> Some(<<r.faces[i], i>>), tests |-> i]
  ELSE FaceLoop(r, i + 1)

\* the face of the least distance among the faces hit
NearestFaceHit(r) ==
  LET hits == {i \in 1..FaceCount : ~IsNaN(r.faces[i])}
      best == CHOOSE i \in hits : \A j \in hits : r.faces[i] < r.faces[j] \/ (r.faces[i] = r.faces[j] /\ i <= j)
  IN IF hits = {} THEN NullOpt ELSE Some(<<r.faces[best], best>>)

\* a findFaceHit that returns the nearest face hit
FindFaceHit_Nearest(r) ==
  IF ~IsNaN(r.bbox) THEN [hit |-> NearestFaceHit(r), tests |-> FaceCount]
  ELSE [hit |-> NullOpt, tests |-> 0]

\* a findFaceHit without the bounding box test
FindFaceHit_NoBoxTest(r) == FaceLoop(r, 1)

\* a findFaceHit that returns the first face without looking at its distance
FindFaceHit_FirstFace(r) ==
  IF ~IsNaN(r.bbox) THEN [hit |-> Some(<<r.faces[1], 1>>), tests |-> 1]
  ELSE [hit |-> NullOpt, tests |-> 0]

\* BrushNode::findFaceHit: the hit it returns and the number of
\* BrushFace::intersectWithRay calls it made
FindFaceHit(r) ==
  IF ~IsNaN(r.bbox) THEN FaceLoop(r, 1) ELSE [hit |-> NullOpt, tests |-> 0]

\* a hit record: Hit(type, distance, hitPoint, target) without the hit point
Hit(type, distance, node, face) ==
  [type |-> type, distance |-> distance, node |-> node, face |-> face]

\* PickResult::addHit
AddHit(hits, hit) == Append(hits, hit)

\* BrushNode::doPick: the hits after the call, and whether its
\* ensure(!vm::is_nan(distance)) failed, which ends the call before addHit
BrushDoPickRun(visible, r, hits) ==
  IF visible
  THEN LET found == FindFaceHit(r)
       IN IF found.hit # NullOpt
          THEN IF ~IsNaN(found.hit[1][1])
               THEN [hits |-> AddHit(hits, Hit("BrushHit", found.hit[1][1], "B", found.hit[1][2])),
                     ensureFailed |-> FALSE]
               ELSE [hits |-> hits, ensureFailed |-> TRUE]
          ELSE [hits |-> hits, ensureFailed |-> FALSE]
  ELSE [hits |-> hits, ensureFailed |-> FALSE]

\* BrushNode::doPick: the hits after the call
BrushDoPick(visible, r, hits) == BrushDoPickRun(visible, r, hits).hits

\* the inputs of an entity pick: EditorContext::visible, whether the logical
\* bounds contain the ray origin, vm::intersect_ray_bbox with them,
\* whether vm::invert inverts the model transformation, EntityModel::intersect
EntityRays == [visible : BOOLEAN, inside : BOOLEAN, bbox : DistOrNaN, invertible : BOOLEAN, model : DistOrNaN]

\* an entity doPick that goes on to the model after a hit of the bounds
EntityDoPick_NoReturn(r, hits, ent, kids, cache, brush) ==
  IF ~(Len(kids) > 0) /\ r.visible
  THEN LET boxHit == ~r.inside /\ ~IsNaN(r.bbox)
           hits1 == IF boxHit THEN AddHit(hits, Hit("EntityHit", r.bbox, "E", 0)) ELSE hits
           tested == ent.model # NullOpt /\ r.invertible
       IN [hits |-> IF tested /\ ~IsNaN(r.model)
                    THEN AddHit(hits1, Hit("EntityHit", r.model, "E", 0))
                    ELSE hits1,
           boxTested |-> ~r.inside,
           modelTested |-> tested,
           cache |-> ValidateBounds(cache, ent, kids, brush),
           recomputed |-> ValidateBoundsRun(cache, ent, kids, brush).recomputed]
  ELSE [hits |-> hits, boxTested |-> FALSE, modelTested |-> FALSE, cache |-> cache, recomputed |-> FALSE]

\* an entity doPick that tests the model whether or not its transformation
\* was inverted
EntityDoPick_IgnoresInvertible(r, hits, ent, kids, cache, brush) ==
  IF ~(Len(kids) > 0) /\ r.visible
  THEN LET validated == ValidateBounds(cache, ent, kids, brush)
       IN IF ~r.inside /\ ~IsNaN(r.bbox)
          THEN [hits |-> AddHit(hits, Hit("EntityHit", r.bbox, "E", 0)),
                boxTested |-> TRUE, modelTested |-> FALSE, cache |-> validated,
                recomputed |-> ValidateBoundsRun(cache, ent, kids, brush).recomputed]
          ELSE IF ent.model # NullOpt
          THEN [hits |-> IF ~IsNaN(r.model)
                         THEN AddHit(hits, Hit("EntityHit", r.model, "E", 0))
                         ELSE hits,
                boxTested |-> ~r.inside, modelTested |-> TRUE, cache |-> validated,
                recomputed |-> ValidateBoundsRun(cache, ent, kids, brush).recomputed]
          ELSE [hits |-> hits, boxTested |-> ~r.inside, modelTested |-> FALSE, cache |-> validated,
                recomputed |-> ValidateBoundsRun(cache, ent, kids, brush).recomputed]
  ELSE [hits |-> hits, boxTested |-> FALSE, modelTested |-> FALSE, cache |-> cache, recomputed |-> FALSE]

\* EntityNode::doPick: the hits and the bounds cache after the call, and
\* whether it tested the bounds and the model
EntityDoPick(r, hits, ent, kids, cache, brush) ==
  IF ~(Len(kids) > 0) /\ r.visible
  THEN LET validated == ValidateBounds(cache, ent, kids, brush)
       IN IF ~r.inside /\ ~IsNaN(r.bbox)
          THEN [hits |-> AddHit(hits, Hit("EntityHit", r.bbox, "E", 0)),
                boxTested |-> TRUE, modelTested |-> FALSE, cache |-> validated,
                recomputed |-> ValidateBoundsRun(cache, ent, kids, brush).recomputed]
          ELSE IF ent.model # NullOpt /\ r.invertible
          THEN [hits |-> IF ~IsNaN(r.model)
                         THEN AddHit(hits, Hit("EntityHit", r.model, "E", 0))
                         ELSE hits,
                boxTested |-> ~r.inside, modelTested |-> TRUE, cache |-> validated,
                recomputed |-> ValidateBoundsRun(cache, ent, kids, brush).recomputed]
          ELSE [hits |-> hits, boxTested |-> ~r.inside, modelTested |-> FALSE, cache |-> validated,
                recomputed |-> ValidateBoundsRun(cache, ent, kids, brush).recomputed]
  ELSE [hits |-> hits, boxTested |-> FALSE, modelTested |-> FALSE, cache |-> cache, recomputed |-> FALSE]

\* the record of a pick call
Picked(node, visible, hasChildren, inside, boxHit, hasModel, invertible, modelTested, ensureFailed, before) ==
  [node |-> node, visible |-> visible, hasChildren |-> hasChildren, inside |-> inside,
   boxHit |-> boxHit, hasModel |-> hasModel, invertible |-> invertible,
   modelTested |-> modelTested, ensureFailed |-> ensureFailed, before |-> before]

NoPick == Picked(NoNode, FALSE, FALSE, FALSE, FALSE, FALSE, FALSE, FALSE, FALSE, << >>)

\* a pick query starts: a new, empty PickResult
StartPick ==
  /\ visited # {}
  /\ pickResult' = << >>
  /\ visited' = {}
  /\ lastPick' = NoPick
  /\ UNCHANGED <<treeVars, brushVars, entityVars, histVars, hitVars, queryVars, m_tagMask, validatorVars, created, findCall>>
  /\ recomputed' = FALSE

\* Node::pick on the brush node: BrushNode::doPick
PickBrush(visible, r) ==
  /\ "B" \notin visited
  /\ pickResult' = BrushDoPick(visible, r, pickResult)
  /\ visited' = visited \cup {"B"}
  /\ lastPick' = Picked("B", visible, FALSE, FALSE, ~IsNaN(r.bbox), FALSE, FALSE, FALSE,
                        BrushDoPickRun(visible, r, pickResult).ensureFailed, pickResult)
  /\ UNCHANGED <<treeVars, brushVars, entityVars, histVars, hitVars, queryVars, m_tagMask, validatorVars, created, findCall>>
  /\ recomputed' = FALSE

\* Node::pick on the entity node: EntityNode::doPick
PickEntity(r) ==
  /\ "E" \notin visited
  /\ LET done == EntityDoPick(r, pickResult, m_entity, children["E"], m_cachedBounds, m_brush)
     IN /\ pickResult' = done.hits
        /\ m_cachedBounds' = done.cache
        /\ recomputed' = done.recomputed
        /\ lastPick' = Picked("E", r.visible, HasChildren(children, "E"), r.inside,
                              ~IsNaN(r.bbox), m_entity.model # NullOpt, r.invertible,
                              done.modelTested, FALSE, pickResult)
  /\ visited' = visited \cup {"E"}
  /\ UNCHANGED <<treeVars, brushVars, m_entity, histVars, hitVars, queryVars, m_tagMask, validatorVars, created, findCall>>

\* BrushNode::findFaceHit is called with the ray
CallFindFaceHit ==
  /\ faceHit = NullOpt
  /\ faceHit' = Some(FindFaceHit(ray))
  /\ UNCHANGED <<treeVars, brushVars, entityVars, histVars, pickVars, ray, queryVars, m_tagMask, validatorVars, created, findCall>>
  /\ recomputed' = FALSE

(***************************************************************************)
(* Containment and intersection queries of the brush node.  The brush is   *)
(* the interval of its bounds; what BrushFace::intersectWithRay returns    *)
(* for a face and a quad edge of a grid is an input of the query.          *)
(***************************************************************************)
\* Brush::containsPoint
BrushContainsPoint(b, p) == BoxContainsPoint(b.bounds, p)

\* Brush::contains(bbox)
BrushContainsBox(b, box) == BoxContainsBox(b.bounds, box)

\* Brush::intersects(bbox)
BrushIntersectsBox(b, box) == BoxIntersectsBox(b.bounds, box)

\* Brush::contains(Brush)
BrushContainsBrush(b, other) == BoxContainsBox(b.bounds, other.bounds)

\* Brush::intersects(Brush)
BrushIntersectsBrush(b, other) == BoxIntersectsBox(b.bounds, other.bounds)

\* the least and the greatest element of a non-empty set of numbers
Least(S) == CHOOSE x \in S : \A y \in S : x <= y

Greatest(S) == CHOOSE x \in S : \A y \in S : x >= y

\* the positions grid points take: left of every brush, within some, right of every brush
GridCoords == {0 - 1, 1, MaxCoord + 1}

\* the row and column counts of the grids
GridShapes == {sh \in (1..MaxGridPoints) \X (1..MaxGridPoints) : sh[1] * sh[2] <= MaxGridPoints}

\* PatchGrid: point count = rows x columns, bounds the tight box of the points
Grids ==
  UNION {{[pointRowCount |-> sh[1], pointColumnCount |-> sh[2], points |-> pts,
           bounds |-> Box(Least({pts[i] : i \in 1..(sh[1] * sh[2])}), Greatest({pts[i] : i \in 1..(sh[1] * sh[2])}))] :
          pts \in [1..(sh[1] * sh[2]) -> GridCoords]} : sh \in GridShapes}

\* PatchGrid::point(row, col), rows and columns numbered from 0
GridPoint(g, row, col) == g.points[row * g.pointColumnCount + col + 1]

\* containsPatch
ContainsPatch(b, g) ==
  IF ~BoxContainsBox(b.bounds, g.bounds) THEN FALSE
  ELSE \A i \in 1..Len(g.points) : BrushContainsPoint(b, g.points[i])

\* the pairs of row-adjacent and of column-adjacent points of a grid, each
\* point by its row and column
AdjacentPairs(g) ==
  {<<<<row, col>>, <<row, col + 1>>>> :
     row \in 0..(g.pointRowCount - 1), col \in 0..(g.pointColumnCount - 2)}
    \cup {<<<<row, col>>, <<row + 1, col>>>> :
            row \in 0..(g.pointRowCount - 2), col \in 0..(g.pointColumnCount - 1)}

\* the distances BrushFace::intersectWithRay may return for the ray along a
\* quad edge, in units of the edge's length: at its end, beyond its end
EdgeDists == {1, 2}

\* what the faces of the brush answer to the quad edges of a grid: no face is
\* hit by any edge, or one face (the first or the last) by one edge at the
\* distance dist
NoEdgeHit == [face |-> 0, p0 |-> << >>, p1 |-> << >>, dist |-> NaN]

EdgeHits(g) ==
  {NoEdgeHit} \cup {[face |-> f, p0 |-> pr[1], p1 |-> pr[2], dist |-> d] :
                      f \in {1, FaceCount}, pr \in AdjacentPairs(g), d \in EdgeDists}

\* BrushFace::intersectWithRay of face f with the ray from point rc0 of the
\* grid along the edge to point rc1; an edge of no length hits nothing
IntersectWithRay(g, hits, f, rc0, rc1) ==
  LET p0 == GridPoint(g, rc0[1], rc0[2])
      p1 == GridPoint(g, rc1[1], rc1[2])
  IN IF p0 = p1 THEN NaN
     ELSE IF hits.face = f /\ hits.p0 = rc0 /\ hits.p1 = rc1 THEN hits.dist
     ELSE NaN

\* faceIntersectsEdge
FaceIntersectsEdge(g, hits, f, rc0, rc1) ==
  LET dist == IntersectWithRay(g, hits, f, rc0, rc1)
  IN IF ~IsNaN(dist) THEN dist >= 0 /\ dist <= 1 ELSE FALSE

\* grid.pointColumnCount - 1u, the bound of the loop over the columns of a row
RowLoopColumnBound(g) == (g.pointColumnCount - 1) % SizeMod

\* grid.pointRowCount - 1u, the bound of the loop over the rows of a column
ColumnLoopRowBound(g) == (g.pointRowCount - 1) % SizeMod

\* row and col are within the grid: PatchGrid::point(row, col) reads a point
\* of the grid
InGrid(g, rc) == rc[1] < g.pointRowCount /\ rc[2] < g.pointColumnCount

\* the row edges in the order of the loops of intersectsPatch: row < pointRowCount,
\* col < pointColumnCount - 1u, in size_t arithmetic
RowEdges(g) ==
  LET colBound == RowLoopColumnBound(g)
  IN [k \in 1..(g.pointRowCount * colBound) |->
        LET row == (k - 1) \div colBound
            col == (k - 1) % colBound
        IN <<<<row, col>>, <<row, col + 1>>>>]

\* the column edges likewise: col < pointColumnCount, row < pointRowCount - 1u
ColumnEdges(g) ==
  LET rowBound == ColumnLoopRowBound(g)
  IN [k \in 1..(g.pointColumnCount * rowBound) |->
        LET col == (k - 1) \div rowBound
            row == (k - 1) % rowBound
        IN <<<<row, col>>, <<row + 1, col>>>>]

\* the edges intersectsPatch tests against a face without the column edges
GridEdges_RowsOnly(g) == RowEdges(g)

\* the edges intersectsPatch tests against a face, in order
GridEdges(g) == RowEdges(g) \o ColumnEdges(g)

RECURSIVE EdgeLoop(_, _, _, _, _, _)
\* the loops of intersectsPatch over the faces and the edges, from edge e of
\* face f on, after n calls of faceIntersectsEdge: the result and the
\* number of calls made; a read of a point outside of the grid is undefined
\* behaviour and ends the account of the run
EdgeLoop(g, hits, edges, f, e, n) ==
  IF f > FaceCount
  THEN [result |-> FALSE, tests |-> n, loopsRun |-> TRUE, outOfRange |-> FALSE]
  ELSE IF e > Len(edges) THEN EdgeLoop(g, hits, edges, f + 1, 1, n)
  ELSE IF ~(InGrid(g, edges[e][1]) /\ InGrid(g, edges[e][2]))
  THEN [result |-> FALSE, tests |-> n, loopsRun |-> TRUE, outOfRange |-> TRUE]
  ELSE IF FaceIntersectsEdge(g, hits, f, edges[e][1], edges[e][2])
  THEN [result |-> TRUE, tests |-> n + 1, loopsRun |-> TRUE, outOfRange |-> FALSE]
  ELSE EdgeLoop(g, hits, edges, f, e + 1, n + 1)

\* an intersectsPatch that does not look for grid points within the brush
IntersectsPatchRun_EdgesOnly(b, g, hits) ==
  IF ~BoxIntersectsBox(b.bounds, g.bounds) THEN [result |-> FALSE, tests |-> 0, loopsRun |-> FALSE, outOfRange |-> FALSE]
  ELSE EdgeLoop(g, hits, GridEdges(g), 1, 1, 0)

\* intersectsPatch: what it returns, the number of faceIntersectsEdge calls,
\* whether it went into the loops over the faces and edges, and whether it
\* read a point outside of the grid (what it returns is undefined then)
IntersectsPatchRun(b, g, hits) ==
  IF ~BoxIntersectsBox(b.bounds, g.bounds) THEN [result |-> FALSE, tests |-> 0, loopsRun |-> FALSE, outOfRange |-> FALSE]
  ELSE IF \E i \in 1..Len(g.points) : BrushContainsPoint(b, g.points[i])
  THEN [result |-> TRUE, tests |-> 0, loopsRun |-> FALSE, outOfRange |-> FALSE]
  ELSE EdgeLoop(g, hits, GridEdges(g), 1, 1, 0)

\* intersectsPatch
IntersectsPatch(b, g, hits) == IntersectsPatchRun(b, g, hits).result

\* the node handed to contains / intersects: its class, its logical bounds
\* (world, layer, group, entity), its brush (brush) or its grid (patch)
QueryBoxes == {bx \in {Box(lo, hi) : lo \in 0..(MaxCoord + 1), hi \in 0..(MaxCoord + 1)} : bx.min <= bx.max}

Queried(kind, box, other, g, hits) ==
  [kind |-> kind, bounds |-> box, brush |-> other, grid |-> g, edgeHits |-> hits]

Queries ==
  {Queried(k, bx, NullOpt, NullOpt, NoEdgeHit) : k \in {"World", "Layer", "Group", "Entity"}, bx \in QueryBoxes}
    \cup {Queried("Brush", o.bounds, Some(o), NullOpt, NoEdgeHit) : o \in UnselectedBrushes}
    \cup UNION {{Queried("Patch", g.bounds, NullOpt, Some(g), h) : h \in EdgeHits(g)} : g \in Grids}

\* a contains that tests a layer by its bounds, like a group
BrushNodeContains_LayerByBounds(b, node) ==
  CASE node.kind = "World" -> FALSE
    [] node.kind = "Brush" -> BrushContainsBrush(b, node.brush[1])
    [] node.kind = "Patch" -> ContainsPatch(b, node.grid[1])
    [] OTHER -> BrushContainsBox(b, node.bounds)

\* BrushNode::contains
BrushNodeContains(b, node) ==
  CASE node.kind = "World" -> FALSE
    [] node.kind = "Layer" -> FALSE
    [] node.kind = "Group" -> BrushContainsBox(b, node.bounds)
    [] node.kind = "Entity" -> BrushContainsBox(b, node.bounds)
    [] node.kind = "Brush" -> BrushContainsBrush(b, node.brush[1])
    [] node.kind = "Patch" -> ContainsPatch(b, node.grid[1])

\* BrushNode::intersects
BrushNodeIntersects(b, node) ==
  CASE node.kind = "World" -> FALSE
    [] node.kind = "Layer" -> FALSE
    [] node.kind = "Group" -> BrushIntersectsBox(b, node.bounds)
    [] node.kind = "Entity" -> BrushIntersectsBox(b, node.bounds)
    [] node.kind = "Brush" -> BrushIntersectsBrush(b, node.brush[1])
    [] node.kind = "Patch" -> IntersectsPatch(b, node.grid[1], node.edgeHits)

\* BrushNode::contains and BrushNode::intersects are called with the node
CallContainsAndIntersects ==
  /\ query # NullOpt
  /\ answer = NullOpt
  /\ answer' = Some([contains |-> BrushNodeContains(m_brush, query[1]),
                     intersects |-> BrushNodeIntersects(m_brush, query[1]),
                     edgeTests |-> IF query[1].kind = "Patch"
                                   THEN IntersectsPatchRun(m_brush, query[1].grid[1], query[1].edgeHits).tests
                                   ELSE 0])
  /\ UNCHANGED <<treeVars, brushVars, entityVars, histVars, pickVars, hitVars, query, m_tagMask, validatorVars, created, findCall>>
  /\ recomputed' = FALSE

\* the row and column counts of the grids without a point
EmptyGridShapes ==
  {sh \in (0..MaxGridPoints) \X (0..MaxGridPoints) : sh[1] = 0 \/ sh[2] = 0}

\* the grids without a point: the tight box of no points is any box
EmptyGrids ==
  {[pointRowCount |-> sh[1], pointColumnCount |-> sh[2], points |-> << >>, bounds |-> bx] :
     sh \in EmptyGridShapes, bx \in QueryBoxes}

\* what a run with undefined behaviour may come to
UndefinedOutcomes == {"true", "false", "crash"}

\* intersectsPatch is called with the brush and the grid of the query; a read
\* outside of the grid makes the outcome any of UndefinedOutcomes
CallIntersectsPatch(ub) ==
  /\ query # NullOpt
  /\ answer = NullOpt
  /\ LET run == IntersectsPatchRun(m_brush, query[1].grid[1], query[1].edgeHits)
     IN answer' = Some([intersects |-> IF run.outOfRange THEN ub = "true"
                                       ELSE IntersectsPatch(m_brush, query[1].grid[1], query[1].edgeHits),
                        crashed |-> run.outOfRange /\ ub = "crash",
                        edgeTests |-> run.tests,
                        loopsRun |-> run.loopsRun,
                        outOfRange |-> run.outOfRange])
  /\ UNCHANGED <<treeVars, brushVars, entityVars, histVars, pickVars, hitVars, query, m_tagMask, validatorVars, created, findCall>>
  /\ recomputed' = FALSE

(***************************************************************************)
(* Tags.  A tag mask is the set of the tags whose bit is set.  The smart   *)
(* tags are one tag per texture, matching the faces of that texture, and   *)
(* one tag matching the brush nodes of an entity; a tag manager registers  *)
(* some of them.                                                           *)
(***************************************************************************)
TextureTags == Textures

EntityTag == "entitybrush"

Tags == TextureTags \cup {EntityTag}

\* TagType::AnyType: all bits set
AnyType == Tags

TagManagers == SUBSET Tags

\* the tags whose matcher matches the face
FaceMatches(face) == {t \in TextureTags : face.texture = t}

\* the tags whose matcher matches the brush node
NodeMatches(par) == {t \in {EntityTag} : par["B"] = "E"}

\* Taggable::clearTags
TaggableClearTags == {}

\* Taggable::updateTags: every tag of the manager is added if its matcher
\* matches and removed if not
TaggableUpdateTags(tagMask, tagManager, matching) ==
  (tagMask \ tagManager) \cup (tagManager \cap matching)

\* Taggable::initializeTags: clearTags, then updateTags
TaggableInitializeTags(tagManager, matching) ==
  TaggableUpdateTags(TaggableClearTags, tagManager, matching)

\* the brush with tag mask masks[i] on face i
WithFaceTags(brush, masks) ==
  [brush EXCEPT !.faces = [i \in 1..FaceCount |-> [brush.faces[i] EXCEPT !.tagMask = masks[i]]]]

\* BrushNode::initializeTags: the node's tag mask and the brush after the call
BrushNodeInitializeTags(tagMask, brush, par, tagManager) ==
  [tagMask |-> TaggableInitializeTags(tagManager, NodeMatches(par)),
   brush |-> WithFaceTags(brush, [i \in 1..FaceCount |->
               TaggableInitializeTags(tagManager, FaceMatches(brush.faces[i]))])]

\* a clearTags that leaves the faces alone
BrushNodeClearTags_NodeOnly(tagMask, brush) ==
  [tagMask |-> TaggableClearTags, brush |-> brush]

\* BrushNode::clearTags
BrushNodeClearTags(tagMask, brush) ==
  [tagMask |-> TaggableClearTags,
   brush |-> WithFaceTags(brush, [i \in 1..FaceCount |-> TaggableClearTags])]

\* BrushNode::updateTags
BrushNodeUpdateTags(tagMask, brush, par, tagManager) ==
  [tagMask |-> TaggableUpdateTags(tagMask, tagManager, NodeMatches(par)),
   brush |-> WithFaceTags(brush, [i \in 1..FaceCount |->
               TaggableUpdateTags(brush.faces[i].tagMask, tagManager, FaceMatches(brush.faces[i]))])]

\* BrushNode::allFacesHaveAnyTagInMask
AllFacesHaveAnyTagInMask(brush, tagMask) ==
  LET sharedFaceTags == {t \in AnyType : \A i \in 1..FaceCount : t \in brush.faces[i].tagMask}
  IN (sharedFaceTags \cap tagMask) # {}

\* BrushNode::anyFacesHaveAnyTagInMask
AnyFacesHaveAnyTagInMask(brush, tagMask) ==
  \E i \in 1..FaceCount : (brush.faces[i].tagMask \cap tagMask) # {}

\* the tag operation leaves the node with the masks of done
TagsChange(op, tagManager, done) ==
  /\ m_tagMask' = done.tagMask
  /\ m_brush' = done.brush
  /\ lastOp' = Op(op, "B", tagManager)
  /\ notified' = << >>
  /\ UNCHANGED <<treeVars, m_selectedFaceCount, entityVars, pickVars, hitVars, queryVars>>
  /\ recomputed' = FALSE
  /\ UNCHANGED <<validatorVars, created, findCall>>

InitializeTags(tagManager) ==
  TagsChange("initializeTags", Some(tagManager),
             BrushNodeInitializeTags(m_tagMask, m_brush, parent, tagManager))

ClearTags == TagsChange("clearTags", NullOpt, BrushNodeClearTags(m_tagMask, m_brush))

UpdateTags(tagManager) ==
  TagsChange("updateTags", Some(tagManager),
             BrushNodeUpdateTags(m_tagMask, m_brush, parent, tagManager))

(***************************************************************************)
(* Selectability and findNodesContaining of the entity                     *)
(***************************************************************************)
\* EntityNode::doSelectable
EntityDoSelectable(kids) == ~(Len(kids) > 0)

\* the points handed to findNodesContaining: in the brush and the patch, in
\* the patch only, and outside of every bounds
FindPoints == {1, MaxCoord + 2, DefaultBoundsHalfSize + MaxOrigin + 1}

\* BrushNode::doFindNodesContaining
BrushDoFindNodesContaining(point, result, brush) ==
  IF BrushContainsPoint(brush, point) THEN result \o <<"B">> ELSE result

\* PatchNode::doFindNodesContaining
PatchDoFindNodesContaining(point, result) ==
  IF BoxContainsPoint(PatchBounds, point) THEN result \o <<"P">> ELSE result

\* Node::findNodesContaining on a child of the entity
ChildFindNodesContaining(child, point, result, brush) ==
  IF child = "B" THEN BrushDoFindNodesContaining(point, result, brush)
  ELSE PatchDoFindNodesContaining(point, result)

\* the loop of EntityNode::doFindNodesContaining over the children from the i-th on
RECURSIVE ForwardToChildren(_, _, _, _, _)
ForwardToChildren(kids, i, point, result, brush) ==
  IF i > Len(kids) THEN result
  ELSE ForwardToChildren(kids, i + 1, point,
                         ChildFindNodesContaining(kids[i], point, result, brush), brush)

\* a doFindNodesContaining that tests its own bounds whether or not it has children
EntityDoFindNodesContaining_AlsoSelf(point, result, ent, kids, cache, brush) ==
  LET run == ValidateBoundsRun(cache, ent, kids, brush)
      forwarded == ForwardToChildren(kids, 1, point, result, brush)
  IN [result |-> IF BoxContainsPoint(run.cache[1].logicalBounds, point)
                 THEN forwarded \o <<"E">> ELSE forwarded,
      forwarded |-> kids, cache |-> run.cache, recomputed |-> run.recomputed]

\* EntityNode::doFindNodesContaining: the result after the call, the children
\* the call was forwarded to in order, the bounds cache after the call and
\* whether the call computed the bounds
EntityDoFindNodesContaining(point, result, ent, kids, cache, brush) ==
  IF Len(kids) > 0
  THEN [result |-> ForwardToChildren(kids, 1, point, result, brush),
        forwarded |-> kids, cache |-> cache, recomputed |-> FALSE]
  ELSE LET run == ValidateBoundsRun(cache, ent, kids, brush)
       IN [result |-> IF BoxContainsPoint(run.cache[1].logicalBounds, point)
                      THEN result \o <<"E">> ELSE result,
           forwarded |-> << >>, cache |-> run.cache, recomputed |-> run.recomputed]

\* Node::findNodesContaining on the entity node, with an empty result
FindNodesContaining(point) ==
  /\ LET done == EntityDoFindNodesContaining(point, << >>, m_entity, children["E"],
                                             m_cachedBounds, m_brush)
     IN /\ m_cachedBounds' = done.cache
        /\ recomputed' = done.recomputed
        /\ findCall' = Some([point |-> point, kids |-> children["E"],
                             bounds |-> ComputeBounds(m_entity, children["E"], m_brush).logicalBounds,
                             result |-> done.result, forwarded |-> done.forwarded])
  /\ UNCHANGED <<treeVars, brushVars, m_tagMask, m_entity, histVars, pickVars, hitVars, queryVars>>
  /\ UNCHANGED <<validatorVars, created>>

(***************************************************************************)
(* Construction and cloning of brush nodes                                 *)
(***************************************************************************)
\* BrushNode::clearSelectedFaces on a node holding the brush: the brush and the
\* count after it
ClearSelectedFaces(brush) ==
  [m_brush |-> [brush EXCEPT !.faces =
                  [i \in 1..FaceCount |->
                     IF brush.faces[i].selected
                     THEN [brush.faces[i] EXCEPT !.selected = FALSE]
                     ELSE brush.faces[i]]],
   m_selectedFaceCount |-> 0]

\* a constructor that does not clear the selected faces
BrushNodeNew_KeepsSelection(brush) == [m_brush |-> brush, m_selectedFaceCount |-> 0]

\* BrushNode::BrushNode(Brush brush): the node constructed from the brush
BrushNodeNew(brush) == ClearSelectedFaces(brush)

\* BrushNode::doClone on a node holding the brush: the node it returns
BrushNodeDoClone(brush) == BrushNodeNew(brush)

\* a brush node is constructed from the brush
NewBrushNode(brush) ==
  /\ created' = Some([op |-> "construct", from |-> brush, node |-> BrushNodeNew(brush)])
  /\ UNCHANGED <<treeVars, brushVars, m_tagMask, entityVars, histVars, pickVars, hitVars, queryVars>>
  /\ UNCHANGED <<recomputed, validatorVars, findCall>>

\* Node::clone on the brush node
Clone ==
  /\ created' = Some([op |-> "clone", from |-> m_brush, node |-> BrushNodeDoClone(m_brush)])
  /\ UNCHANGED <<treeVars, brushVars, m_tagMask, entityVars, histVars, pickVars, hitVars, queryVars>>
  /\ UNCHANGED <<recomputed, validatorVars, findCall>>

(***************************************************************************)
(* MissingModValidator.  The game is outside of the program: the mods it   *)
(* extracts from the entity and the search paths it finds in error are     *)
(* inputs of a validation.                                                 *)
(***************************************************************************)
\* the longest list of enabled mods
MaxMods == 2

ModNames == {"mod1", "mod2"}

\* the lists of enabled mods that Game::extractEnabledMods returns
ModLists == UNION {[1..n -> ModNames] : n \in 0..MaxMods}

\* EntityPropertyValues::WorldspawnClassname
WorldspawnClassname == "worldspawn"

Classnames == {WorldspawnClassname, "info_player_start"}

\* the mods at the positions of bad, in the order of the list
RECURSIVE ModsAt(_, _, _)
ModsAt(mods, bad, i) ==
  IF i > Len(mods) THEN << >>
  ELSE (IF i \in bad THEN <<mods[i]>> ELSE << >>) \o ModsAt(mods, bad, i + 1)

\* what Game::checkAdditionalSearchPaths may return for the mods: the search
\* paths in error, in the order of the list
SearchPathErrors(mods) == {ModsAt(mods, bad, 1) : bad \in SUBSET (1..Len(mods))}

\* the issues pushed for the errors: one MissingModIssue per search path
MissingModIssues(errors) == [i \in 1..Len(errors) |-> [type |-> "MissingMod", mod |-> errors[i]]]

\* a doValidate that locks the game without asking whether it expired
DoValidate_NoExpiryCheck(classname, game, lastMods, mods, errors) ==
  IF classname # WorldspawnClassname
  THEN [issues |-> << >>, lastMods |-> lastMods, gameUsed |-> FALSE, checked |-> FALSE]
  ELSE IF mods = lastMods
  THEN [issues |-> << >>, lastMods |-> lastMods, gameUsed |-> TRUE, checked |-> FALSE]
  ELSE [issues |-> MissingModIssues(errors), lastMods |-> mods, gameUsed |-> TRUE, checked |-> TRUE]

\* a doValidate that does not remember the mods it checked
DoValidate_ForgetsMods(classname, game, lastMods, mods, errors) ==
  IF classname # WorldspawnClassname \/ game = "expired"
  THEN [issues |-> << >>, lastMods |-> lastMods, gameUsed |-> FALSE, checked |-> FALSE]
  ELSE IF mods = lastMods
  THEN [issues |-> << >>, lastMods |-> lastMods, gameUsed |-> TRUE, checked |-> FALSE]
  ELSE [issues |-> MissingModIssues(errors), lastMods |-> lastMods, gameUsed |-> TRUE, checked |-> TRUE]

\* MissingModValidator::doValidate on a node of the classname, issues being
\* empty before: the issues pushed, m_lastMods after the call, whether the
\* game was locked and used, and whether the search paths were checked
DoValidate(classname, game, lastMods, mods, errors) ==
  IF classname # WorldspawnClassname
  THEN [issues |-> << >>, lastMods |-> lastMods, gameUsed |-> FALSE, checked |-> FALSE]
  ELSE IF game = "expired"
  THEN [issues |-> << >>, lastMods |-> lastMods, gameUsed |-> FALSE, checked |-> FALSE]
  ELSE IF mods = lastMods
  THEN [issues |-> << >>, lastMods |-> lastMods, gameUsed |-> TRUE, checked |-> FALSE]
  ELSE [issues |-> MissingModIssues(errors), lastMods |-> mods, gameUsed |-> TRUE, checked |-> TRUE]

\* the mods of the last validation that checked the search paths, if any
CompletedCheck == IF validateCall = NullOpt THEN NullOpt ELSE validateCall[1].completed

\* Validator::validate on a node of the classname whose entity enables the
\* mods, while the game finds the search paths of errors in error
Validate(classname, mods, errors) ==
  /\ LET done == DoValidate(classname, m_game, m_lastMods, mods, errors)
     IN /\ m_lastMods' = done.lastMods
        /\ validateCall' = Some([classname |-> classname, mods |-> mods, errors |-> errors,
                                 game |-> m_game, lastModsBefore |-> m_lastMods,
                                 previousCheck |-> CompletedCheck,
                                 completed |-> IF done.checked THEN Some(mods) ELSE CompletedCheck,
                                 issues |-> done.issues, gameUsed |-> done.gameUsed])
  /\ UNCHANGED <<treeVars, brushVars, m_tagMask, entityVars, histVars, pickVars, hitVars, queryVars>>
  /\ UNCHANGED <<recomputed, m_game, created, findCall>>

\* the owner of the game releases it: the validator's weak reference expires
GameExpires ==
  /\ m_game = "live"
  /\ m_game' = "expired"
  /\ UNCHANGED <<treeVars, brushVars, m_tagMask, entityVars, histVars, pickVars, hitVars, queryVars>>
  /\ UNCHANGED <<recomputed, m_lastMods, validateCall, created, findCall>>

(***************************************************************************)
(* Spec: the scene tree under structural edits, brush replacement, entity  *)
(* changes and bounds reads                                                *)
(***************************************************************************)
\* a world with its default layer and a group in it; the other nodes are
\* constructed and detached
InitTree ==
  /\ parent = [n \in Nodes |-> CASE n = "L" -> "W" [] n = "G" -> "L" [] OTHER -> NoNode]
  /\ children = [n \in Nodes |-> CASE n = "W" -> <<"L">> [] n = "L" -> <<"G">> [] OTHER -> << >>]

\* BrushNode::BrushNode: the node holds the brush, no face selected, no tag
InitBrush ==
  /\ m_brush \in {b \in UnselectedBrushes : b.bounds = Box(0, 1)}
  /\ m_selectedFaceCount = 0
  /\ m_tagMask = {}

\* EntityNode::EntityNode: no cached bounds
InitEntity ==
  /\ m_entity \in {[origin |-> 0, model |-> NullOpt, definition |-> d, pointEntity |-> TRUE] :
                     d \in {NullOpt, Some(PointDefinition)}}
  /\ m_cachedBounds = NullOpt
  /\ recomputed = FALSE

InitHist ==
  /\ lastOp = Op("construct", NoNode, NullOpt)
  /\ notified = << >>

\* no pick query has run
InitPick ==
  /\ pickResult = << >>
  /\ visited = {}
  /\ lastPick = NoPick

\* no ray is under test
InitHit ==
  /\ ray = [bbox |-> NaN, faces |-> [i \in 1..FaceCount |-> NaN]]
  /\ faceHit = NullOpt

\* no node is under query
InitQuery ==
  /\ query = NullOpt
  /\ answer = NullOpt

\* MissingModValidator::MissingModValidator: a reference to the game, no mod
\* list remembered
InitValidator ==
  /\ m_game = "live"
  /\ m_lastMods = << >>
  /\ validateCall = NullOpt

\* no brush node has been constructed or cloned
InitCreated == created = NullOpt

\* no findNodesContaining has run
InitFound == findCall = NullOpt

InitRest == InitValidator /\ InitCreated /\ InitFound

Init == InitTree /\ InitBrush /\ InitEntity /\ InitHist /\ InitRest /\ InitPick /\ InitHit /\ InitQuery

\* the edits of the scene: the entity moves between the layer and the group,
\* the brush and the patch in and out of the entity
SceneEdits == {<<"L", "E">>, <<"G", "E">>, <<"E", "B">>, <<"E", "P">>}

Next ==
  \/ \E e \in SceneEdits : AddChild(e[1], e[2])
  \/ \E e \in SceneEdits : RemoveChild(e[1], e[2])
  \/ \E nb \in UnselectedBrushes : SetBrush(nb)
  \/ \E m \in {NullOpt, Some(ModelFrame)} : SetModelFrame(m)
  \/ \E o \in 0..MaxOrigin : PropertiesDidChange(o)
  \/ GetPhysicalBounds
  \/ GetLogicalBounds

Spec == Init /\ [][Next]_vars

(***************************************************************************)
(* SpecSel: face selection on a brush node                                 *)
(***************************************************************************)
NextSel ==
  \/ \E i \in 1..FaceCount : SelectFace(i)
  \/ \E i \in 1..FaceCount : DeselectFace(i)

SpecSel == Init /\ [][NextSel]_vars

(***************************************************************************)
(* SpecBrush: the brush is replaced by brushes with any faces selected,     *)
(* between selections and deselections of faces                            *)
(***************************************************************************)
\* the brushes handed to setBrush: every set of selected faces
ReplacementBrushes == {b \in AllBrushes : b.bounds.min = 0}

NextBrush ==
  \/ \E nb \in ReplacementBrushes : SetBrush(nb)
  \/ \E i \in 1..FaceCount : SelectFace(i)
  \/ \E i \in 1..FaceCount : DeselectFace(i)

SpecBrush == Init /\ [][NextBrush]_vars

(***************************************************************************)
(* SpecTags: the tag operations on a brush node with any textures on its   *)
(* faces, inside and outside of the entity                                 *)
(***************************************************************************)
TexturedBrushes ==
  {[bounds |-> Box(0, 1), faces |-> [i \in 1..FaceCount |-> Face(FALSE, tx[i])]] :
     tx \in [1..FaceCount -> Textures]}

InitTagged ==
  /\ InitTree /\ InitEntity /\ InitHist /\ InitRest /\ InitPick /\ InitHit /\ InitQuery
  /\ m_brush \in TexturedBrushes
  /\ m_selectedFaceCount = 0
  /\ m_tagMask = {}

NextTags ==
  \/ \E tm \in TagManagers : InitializeTags(tm)
  \/ \E tm \in TagManagers : UpdateTags(tm)
  \/ ClearTags
  \/ AddChild("E", "B")
  \/ RemoveChild("E", "B")

SpecTags == InitTagged /\ [][NextTags]_vars

(***************************************************************************)
(* SpecNotify: the brush operations and child edits that may signal a      *)
(* physical bounds change                                                  *)
(***************************************************************************)
NextNotify ==
  \/ \E e \in SceneEdits : AddChild(e[1], e[2])
  \/ \E e \in SceneEdits : RemoveChild(e[1], e[2])
  \/ \E nb \in UnselectedBrushes : SetBrush(nb)
  \/ \E i \in 1..FaceCount, t \in Textures : SetFaceTexture(i, t)
  \/ GetPhysicalBounds

SpecNotify == Init /\ [][NextNotify]_vars

(***************************************************************************)
(* SpecShape: every add and remove of a child that canAddChild and         *)
(* canRemoveChild allow, over all pairs of nodes                           *)
(***************************************************************************)
\* a world with its default layer; the other nodes are detached
InitWorld ==
  /\ parent = [n \in Nodes |-> IF n = "L" THEN "W" ELSE NoNode]
  /\ children = [n \in Nodes |-> IF n = "W" THEN <<"L">> ELSE << >>]

InitShape == InitWorld /\ InitBrush /\ InitEntity /\ InitHist /\ InitRest /\ InitPick /\ InitHit /\ InitQuery

NextShape ==
  \/ \E p \in Nodes, c \in Nodes : AddChild(p, c)
  \/ \E p \in Nodes, c \in Nodes : RemoveChild(p, c)

SpecShape == InitShape /\ [][NextShape]_vars

(***************************************************************************)
(* SpecPick: pick queries over the brush and the entity, between edits of  *)
(* the entity's children and model                                         *)
(***************************************************************************)
NextPick ==
  \/ StartPick
  \/ \E v \in BOOLEAN, r \in Rays : PickBrush(v, r)
  \/ \E r \in EntityRays : PickEntity(r)
  \/ AddChild("E", "B")
  \/ RemoveChild("E", "B")
  \/ \E m \in {NullOpt, Some(ModelFrame)} : SetModelFrame(m)

SpecPick == Init /\ [][NextPick]_vars

(***************************************************************************)
(* SpecFaceHit: findFaceHit on every ray                                   *)
(***************************************************************************)
InitFaceHit ==
  /\ InitTree /\ InitBrush /\ InitEntity /\ InitHist /\ InitRest /\ InitPick /\ InitQuery
  /\ ray \in Rays
  /\ faceHit = NullOpt

NextFaceHit == CallFindFaceHit

SpecFaceHit == InitFaceHit /\ [][NextFaceHit]_vars

(***************************************************************************)
(* SpecQuery: contains and intersects of every brush on every node         *)
(***************************************************************************)
InitContains ==
  /\ InitTree /\ InitEntity /\ InitHist /\ InitRest /\ InitPick /\ InitHit
  /\ m_entity.definition = NullOpt
  /\ m_brush \in UnselectedBrushes
  /\ m_selectedFaceCount = 0
  /\ m_tagMask = {}
  /\ query \in {Some(q) : q \in Queries}
  /\ answer = NullOpt

NextQuery == CallContainsAndIntersects

SpecQuery == InitContains /\ [][NextQuery]_vars

(***************************************************************************)
(* SpecLazy: the three bounds reads of the entity between the edits of     *)
(* Spec                                                                    *)
(***************************************************************************)
NextLazy ==
  \/ Next
  \/ GetModelBounds

SpecLazy == Init /\ [][NextLazy]_vars

(***************************************************************************)
(* SpecMods: validations of nodes by the MissingModValidator, before and   *)
(* after the game expires                                                  *)
(***************************************************************************)
NextMods ==
  \/ \E cn \in Classnames, mods \in ModLists :
       \E errors \in SearchPathErrors(mods) : Validate(cn, mods, errors)
  \/ GameExpires

SpecMods == Init /\ [][NextMods]_vars

(***************************************************************************)
(* SpecClone: brush nodes are constructed from brushes with any faces      *)
(* selected, and the brush node is cloned between selections of its faces  *)
(***************************************************************************)
NextClone ==
  \/ \E i \in 1..FaceCount : SelectFace(i)
  \/ \E i \in 1..FaceCount : DeselectFace(i)
  \/ \E b \in ReplacementBrushes : NewBrushNode(b)
  \/ Clone

SpecClone == Init /\ [][NextClone]_vars

(***************************************************************************)
(* SpecFind: picks and findNodesContaining on the entity between adds and  *)
(* removes of its children                                                 *)
(***************************************************************************)
NextFind ==
  \/ \E c \in {"B", "P"} : AddChild("E", c)
  \/ \E c \in {"B", "P"} : RemoveChild("E", c)
  \/ StartPick
  \/ \E r \in EntityRays : PickEntity(r)
  \/ \E p \in FindPoints : FindNodesContaining(p)

SpecFind == Init /\ [][NextFind]_vars

(***************************************************************************)
(* SpecGrid: intersectsPatch of every brush on every grid, the grids        *)
(* without a point included, no face being hit by an edge                  *)
(***************************************************************************)
InitGrid ==
  /\ InitTree /\ InitEntity /\ InitHist /\ InitRest /\ InitPick /\ InitHit
  /\ m_entity.definition = NullOpt
  /\ m_brush \in UnselectedBrushes
  /\ m_selectedFaceCount = 0
  /\ m_tagMask = {}
  /\ query \in {Some(Queried("Patch", g.bounds, NullOpt, Some(g), NoEdgeHit)) : g \in Grids \cup EmptyGrids}
  /\ answer = NullOpt

NextGrid == \E ub \in UndefinedOutcomes : CallIntersectsPatch(ub)

SpecGrid == InitGrid /\ [][NextGrid]_vars

(***************************************************************************)
(* The claims                                                              *)
(***************************************************************************)
\* the bounds a from-scratch computation gives in the current state
FreshBounds == ComputeBounds(m_entity, children["E"], m_brush)

\* C1: after any sequence of selectFace / deselectFace calls with in-range
\* indices, hasSelectedFaces() is true iff some face of the brush has its
\* selected flag set.
C1_HasSelectedIffSomeFaceSelected ==
  HasSelectedFaces <=> (NumSelected(m_brush) # 0)

\* C2: a cached bounds entry of the entity equals the from-scratch bounds of
\* the current state, and each read of physicalBounds() and of
\* logicalBounds() returned the from-scratch value.
C2_BoundsCacheCorrect ==
  /\ m_cachedBounds # NullOpt => m_cachedBounds[1] = FreshBounds
  /\ lastOp.op = "physicalBounds" => lastOp.value = Some(FreshBounds.physicalBounds)
  /\ lastOp.op = "logicalBounds" => lastOp.value = Some(FreshBounds.logicalBounds)

\* C2 witness: physicalBounds() was read of an entity holding the brush and
\* the patch, after the brush was replaced and the entity moved.
C2_Witness ==
  /\ lastOp.op = "physicalBounds"
  /\ Len(children["E"]) = 2
  /\ m_brush.bounds # Box(0, 1)
  /\ m_entity.origin # 0

\* C3 as stated: setBrush, setFaceTexture and child add / remove each fire
\* the physical bounds notification of the node they are applied to.
C3_AllFourNotify ==
  lastOp.op \in {"setBrush", "setFaceTexture", "addChild", "removeChild"}
    => lastOp.node \in Range(notified)

\* C3 amended: setBrush and child add / remove fire the physical bounds
\* notification of the node they are applied to first of all (an entity's
\* cache is then empty); setFaceTexture fires no notification.
C3_SetBrushAndChildEditsNotify ==
  /\ lastOp.op \in {"setBrush", "addChild", "removeChild"}
       => Len(notified) > 0 /\ notified[1] = lastOp.node
  /\ lastOp.op \in {"addChild", "removeChild"} /\ lastOp.node = "E"
       => m_cachedBounds = NullOpt
  /\ lastOp.op = "setFaceTexture" => notified = << >>

\* C3 witness: setBrush ran on the brush while it was a child of the entity.
C3_Witness ==
  lastOp.op = "setBrush" /\ parent["B"] = "E" /\ notified[1] = "B"

\* C4: after setBrush the notification has run on the brush, its parent and
\* every further ancestor up to the root, in this order, and the cache of a
\* parent entity is empty.
C4_InvalidationReachesRoot ==
  lastOp.op = "setBrush"
    => /\ notified = PathToRoot(parent, "B")
       /\ parent["B"] = "E" => m_cachedBounds = NullOpt

\* C4 witness: setBrush ran on a brush four levels below the world.
C4_Witness ==
  /\ lastOp.op = "setBrush"
  /\ parent["B"] = "E"
  /\ parent["E"] = "G"
  /\ notified = <<"B", "E", "G", "L", "W">>

\* C10: every child of an entity is a brush or a patch, the brush node has
\* no child, it accepts no candidate, is not removed when empty and is put
\* into the spatial index.
C10_EntityChildrenAreBrushOrPatch ==
  /\ \A n \in Nodes : parent[n] = "E" => Kind(n) \in {"Brush", "Patch"}
  /\ \A i \in 1..Len(children["E"]) : Kind(children["E"][i]) \in {"Brush", "Patch"}
  /\ children["B"] = << >>
  /\ \A n \in Nodes : parent[n] # "B"
  /\ \A c \in Nodes : ~BrushDoCanAddChild(c)
  /\ ~BrushDoRemoveIfEmpty
  /\ BrushDoShouldAddToSpacialIndex

\* C10 witness: the entity holds both the brush and the patch.
C10_Witness ==
  Range(children["E"]) = {"B", "P"} /\ parent["E"] = "G"

\* C5: a pick call on the brush or the entity leaves the hits that were in
\* the pick result in place, appends at most one hit, and appends none when
\* the editor context reports the node as not visible.
C5_PickAppendsAtMostOneHit ==
  lastPick.node # NoNode
    => /\ Len(pickResult) <= Len(lastPick.before) + 1
       /\ Len(pickResult) >= Len(lastPick.before)
       /\ SubSeq(pickResult, 1, Len(lastPick.before)) = lastPick.before
       /\ ~lastPick.visible => pickResult = lastPick.before

\* C5 witness: the entity's pick appended its hit after the hit of the brush.
C5_Witness ==
  /\ lastPick.node = "E"
  /\ Len(lastPick.before) = 1
  /\ Len(pickResult) = 2
  /\ pickResult[1].type = "BrushHit"
  /\ pickResult[2].type = "EntityHit"

\* C6: findFaceHit returns no hit exactly when the ray misses the bounding
\* box or hits no face; otherwise it returns the face of the least stored
\* index among the faces hit, with the distance of that face.
C6_FirstFaceInStoredOrder ==
  faceHit # NullOpt
    => LET hit == faceHit[1].hit
           hits == {i \in 1..FaceCount : ~IsNaN(ray.faces[i])}
       IN /\ (hit = NullOpt) <=> (IsNaN(ray.bbox) \/ hits = {})
          /\ hit # NullOpt
               => \E i \in hits : (\A j \in hits : i <= j) /\ hit = Some(<<ray.faces[i], i>>)

\* C6 witness: face 1 was returned although face 2 is hit at a lesser distance.
C6_Witness ==
  /\ faceHit # NullOpt
  /\ faceHit[1].hit # NullOpt
  /\ faceHit[1].hit[1][2] = 1
  /\ ~IsNaN(ray.faces[2])
  /\ ray.faces[2] < ray.faces[1]

\* C7: for a ray that misses the bounding box findFaceHit makes no per-face
\* intersection test and returns no hit.
C7_BoxMissTestsNoFace ==
  faceHit # NullOpt /\ IsNaN(ray.bbox)
    => faceHit[1].tests = 0 /\ faceHit[1].hit = NullOpt

\* C7 witness: findFaceHit ran on a ray that misses the bounding box.
C7_Witness ==
  faceHit # NullOpt /\ IsNaN(ray.bbox) /\ faceHit[1].tests = 0

\* C8 as stated: in the pick of a childless, visible entity the model is not
\* tested whenever the ray meets the logical bounds box, wherever the ray
\* starts (also inside the box).
C8_ModelUntestedWheneverRayMeetsBox ==
  /\ lastPick.node = "E"
  /\ ~lastPick.hasChildren
  /\ lastPick.visible
  /\ lastPick.inside \/ lastPick.boxHit
  => ~lastPick.modelTested

\* C8 amended: in the pick of a childless, visible entity the model is not
\* tested when the ray starts outside the logical bounds box and hits it; in
\* every other case (the ray starts inside the box, or misses it) the model
\* is tested iff one is attached and its transformation is invertible.
C8_ModelTestedUnlessBoxHitFromOutside ==
  lastPick.node = "E" /\ ~lastPick.hasChildren /\ lastPick.visible
    => (lastPick.modelTested <=>
          /\ ~(~lastPick.inside /\ lastPick.boxHit)
          /\ lastPick.hasModel
          /\ lastPick.invertible)

\* C8 witness: a ray from outside hit the box of an entity with a model of
\* invertible transformation, and the model was not tested.
C8_Witness ==
  /\ lastPick.node = "E"
  /\ ~lastPick.hasChildren
  /\ lastPick.visible
  /\ ~lastPick.inside
  /\ lastPick.boxHit
  /\ lastPick.hasModel
  /\ lastPick.invertible
  /\ ~lastPick.modelTested

\* C9: contains and intersects of a brush node return false for a world and
\* for a layer, whatever the brush and the bounds of the node.
C9_WorldAndLayerNeverContained ==
  answer # NullOpt /\ query[1].kind \in {"World", "Layer"}
    => ~answer[1].contains /\ ~answer[1].intersects

\* C9 witness: the query was made for a layer whose bounds lie within the brush.
C9_Witness ==
  /\ answer # NullOpt
  /\ query[1].kind = "Layer"
  /\ BoxContainsBox(m_brush.bounds, query[1].bounds)

\* the entity's bounds as a read in the current state returns them
ReadBounds == ValidateBounds(m_cachedBounds, m_entity, children["E"], m_brush)[1]

\* C11: after a child was added to or removed from the entity, its point
\* entity flag equals (the entity has no children) and its bounds cache is
\* empty; in every state the flag is true exactly if the child list is empty.
C11_PointEntityIffChildless ==
  /\ lastOp.op \in {"addChild", "removeChild"} /\ lastOp.node = "E"
       => /\ m_entity.pointEntity = ~HasChildren(children, "E")
          /\ m_cachedBounds = NullOpt
  /\ m_entity.pointEntity <=> children["E"] = << >>

\* C11 witness: one of two children was removed; the flag stays false.
C11_Witness ==
  /\ lastOp.op = "removeChild"
  /\ lastOp.node = "E"
  /\ Len(children["E"]) = 1
  /\ ~m_entity.pointEntity

\* C12: an entity with a single child is no point entity, and a read of
\* physicalBounds() returns exactly the physical bounds of that child,
\* whatever the entity's definition, origin and model.
C12_FirstChildGivesItsBounds ==
  Len(children["E"]) = 1
    => /\ ~m_entity.pointEntity
       /\ ReadBounds.physicalBounds = ChildPhysicalBounds(children["E"][1], m_brush)
       /\ lastOp.op = "physicalBounds"
            => lastOp.value = Some(ChildPhysicalBounds(children["E"][1], m_brush))

\* C12 witness: physicalBounds() was read of an entity with a model, moved
\* from the origin, that holds the brush alone.
C12_Witness ==
  /\ lastOp.op = "physicalBounds"
  /\ children["E"] = <<"B">>
  /\ m_entity.model # NullOpt
  /\ m_entity.origin # 0
  /\ lastOp.value = Some(m_brush.bounds)

\* C13: for a childless entity without model and without point entity
\* definition, logicalBounds() and physicalBounds() both are the box from
\* origin - 8 to origin + 8.
C13_DefaultBoundsAroundOrigin ==
  children["E"] = << >> /\ m_entity.model = NullOpt /\ m_entity.definition = NullOpt
    => /\ ReadBounds.logicalBounds = Box(m_entity.origin - 8, m_entity.origin + 8)
       /\ ReadBounds.physicalBounds = Box(m_entity.origin - 8, m_entity.origin + 8)
       /\ lastOp.op \in {"physicalBounds", "logicalBounds"}
            => lastOp.value = Some(Box(m_entity.origin - 8, m_entity.origin + 8))

\* C13 witness: logicalBounds() was read of such an entity away from the origin.
C13_Witness ==
  /\ lastOp.op = "logicalBounds"
  /\ children["E"] = << >>
  /\ m_entity.model = NullOpt
  /\ m_entity.definition = NullOpt
  /\ m_entity.origin # 0

\* C14: the logical bounds of the entity lie within its physical bounds, and
\* those of the brush node within its physical bounds.
C14_LogicalWithinPhysical ==
  /\ BoxContainsBox(ReadBounds.physicalBounds, ReadBounds.logicalBounds)
  /\ BoxContainsBox(BrushDoGetPhysicalBounds(m_brush), BrushDoGetLogicalBounds(m_brush))

\* C14 witness: a childless entity whose model reaches beyond its logical bounds.
C14_Witness ==
  /\ children["E"] = << >>
  /\ m_entity.model # NullOpt
  /\ m_cachedBounds # NullOpt
  /\ m_cachedBounds[1].physicalBounds # m_cachedBounds[1].logicalBounds

\* C15: a step setBrush(b) makes b the brush of the node, returns the brush
\* held before and leaves the count at the number of selected faces of b;
\* a setBrush of the brush the last setBrush returned puts that brush back
\* and returns the brush held in between.
C15_SetBrushSwapsAndRecounts ==
  [][/\ \A nb \in ReplacementBrushes :
          SetBrush(nb) => /\ m_brush' = nb
                          /\ lastOp'.value = Some(m_brush)
                          /\ m_selectedFaceCount' = NumSelected(nb)
     /\ lastOp.op = "setBrush" /\ lastOp'.op = "setBrush" /\ m_brush' = lastOp.value[1]
          => lastOp'.value = Some(m_brush)]_vars

\* C15 witness: setBrush returned a brush with a face selected while the
\* node now holds a brush with two faces selected.
C15_Witness ==
  /\ lastOp.op = "setBrush"
  /\ NumSelected(lastOp.value[1]) = 1
  /\ NumSelected(m_brush) = 2
  /\ m_selectedFaceCount = 2

\* the brush as a newly constructed node holds it: no face selected, no tag
FreshBrush(brush) ==
  [brush EXCEPT !.faces = [i \in 1..FaceCount |-> Face(FALSE, brush.faces[i].texture)]]

\* the tag masks of the faces of a brush, in stored order
FaceTagMasks(brush) == [i \in 1..FaceCount |-> brush.faces[i].tagMask]

\* C16: clearTags leaves no tag on the node and on its faces, and an
\* initializeTags that follows a clearTags leaves the tag masks of the node
\* and of every face equal to those of a newly constructed node with an
\* equal brush after initializeTags with the same tag manager.
C16_ClearThenInitializeAsFresh ==
  [][/\ lastOp'.op = "clearTags"
          => m_tagMask' = {} /\ \A i \in 1..FaceCount : m_brush'.faces[i].tagMask = {}
     /\ lastOp.op = "clearTags" /\ lastOp'.op = "initializeTags"
          => LET fresh == BrushNodeInitializeTags({}, FreshBrush(m_brush), parent, lastOp'.value[1])
             IN /\ m_tagMask' = fresh.tagMask
                /\ FaceTagMasks(m_brush') = FaceTagMasks(fresh.brush)]_vars

\* C16 witness: initializeTags ran with a tag manager that registers some of
\* the tags; it set a tag on the node and on one face and none on another.
C16_Witness ==
  /\ lastOp.op = "initializeTags"
  /\ lastOp.value[1] # Tags
  /\ m_tagMask # {}
  /\ \E i \in 1..FaceCount : m_brush.faces[i].tagMask # {}
  /\ \E i \in 1..FaceCount : m_brush.faces[i].tagMask = {}

\* C18: allFacesHaveAnyTagInMask(mask) is true iff every face has a tag
\* that lies in mask, for every mask.
C18_AllFacesIffEachFaceTagged ==
  \A mask \in SUBSET Tags :
    AllFacesHaveAnyTagInMask(m_brush, mask)
      <=> \A i \in 1..FaceCount : (m_brush.faces[i].tagMask \cap mask) # {}

C19_IntersectsPatchExhaustive ==
  answer # NullOpt /\ query[1].kind = "Patch"
    => LET g == query[1].grid[1]
           overlap == BoxIntersectsBox(m_brush.bounds, g.bounds)
           inside == \E i \in 1..Len(g.points) : BrushContainsPoint(m_brush, g.points[i])
           hit == \E f \in 1..FaceCount, pr \in AdjacentPairs(g) :
                    LET d == IntersectWithRay(g, query[1].edgeHits, f, pr[1], pr[2])
                    IN ~IsNaN(d) /\ 0 <= d /\ d <= 1
       IN /\ answer[1].intersects <=> (overlap /\ (inside \/ hit))
          /\ overlap /\ ~answer[1].intersects
               => answer[1].edgeTests = FaceCount * Cardinality(AdjacentPairs(g))

\* C19 witness: intersectsPatch returned false for a grid of two rows and two
\* columns around the brush, one of whose column edges meets a face beyond
\* the end of the edge, after testing its four edges against every face.
C19_Witness ==
  /\ answer # NullOpt
  /\ query[1].kind = "Patch"
  /\ query[1].grid[1].pointRowCount = 2
  /\ query[1].grid[1].pointColumnCount = 2
  /\ BoxIntersectsBox(m_brush.bounds, query[1].grid[1].bounds)
  /\ query[1].edgeHits.p1 = <<1, 0>>
  /\ query[1].edgeHits.dist = 2
  /\ ~answer[1].intersects
  /\ answer[1].edgeTests = FaceCount * 4

\* C20: in the pick of a childless, visible entity whose ray got no hit of
\* the bounds and whose model transformation is not invertible, the model is
\* not tested and the pick result stays as it was.
C20_NonInvertibleSkipsModel ==
  /\ lastPick.node = "E"
  /\ ~lastPick.hasChildren
  /\ lastPick.visible
  /\ lastPick.inside \/ ~lastPick.boxHit
  /\ ~lastPick.invertible
  => ~lastPick.modelTested /\ pickResult = lastPick.before

\* C20 witness: such a pick of an entity with a model, after the pick of the
\* brush had put a hit into the pick result.
C20_Witness ==
  /\ lastPick.node = "E"
  /\ ~lastPick.hasChildren
  /\ lastPick.visible
  /\ ~lastPick.inside
  /\ ~lastPick.boxHit
  /\ lastPick.hasModel
  /\ ~lastPick.invertible
  /\ Len(lastPick.before) = 1
  /\ pickResult = lastPick.before

\* C21: the ensure of BrushNode::doPick never fails, and no brush hit in the
\* pick result has an undefined distance.
C21_HitDistanceDefined ==
  /\ ~lastPick.ensureFailed
  /\ \A i \in 1..Len(pickResult) :
       pickResult[i].type = "BrushHit" => ~IsNaN(pickResult[i].distance)

\* C21 witness: the pick of the visible brush passed the ensure and added a
\* hit of the second face, the first face not being hit.
C21_Witness ==
  /\ lastPick.node = "B"
  /\ lastPick.visible
  /\ Len(pickResult) = Len(lastPick.before) + 1
  /\ pickResult[Len(pickResult)].type = "BrushHit"
  /\ pickResult[Len(pickResult)].face = 2

\* the operations that read bounds of the entity
BoundsReads == {"modelBounds", "logicalBounds", "physicalBounds"}

\* C22: a step computes the entity's bounds exactly if it is a bounds read
\* that finds the cache absent; a read leaves the cache present, and a present
\* cache as it was; every other operation leaves the cache as it was or
\* absent; a present cache holds the model, logical and physical bounds.
C22_RecomputeOnlyOnReadOfAbsentCache ==
  [][ /\ recomputed' <=> (lastOp'.op \in BoundsReads /\ m_cachedBounds = NullOpt)
      /\ lastOp'.op \in BoundsReads
           => /\ m_cachedBounds' # NullOpt
              /\ m_cachedBounds # NullOpt => m_cachedBounds' = m_cachedBounds
      /\ lastOp'.op \notin BoundsReads => m_cachedBounds' \in {NullOpt, m_cachedBounds}
      /\ m_cachedBounds' # NullOpt
           => DOMAIN m_cachedBounds'[1] = {"modelBounds", "logicalBounds", "physicalBounds"}
    ]_vars

\* C22 witness: a read of the model bounds right after a read of the
\* physical bounds that computed them: the second read computed nothing.
C22_Witness ==
  /\ lastOp.op = "modelBounds"
  /\ m_cachedBounds # NullOpt
  /\ ~recomputed
  /\ HasChildren(children, "E")

\* C23: a validation of a worldspawn node with an expired game reports no
\* issue, does not use the game and leaves m_lastMods as it was; the game is
\* never used when expired; a validation of a node of another classname
\* reports no issue and leaves m_lastMods as it was.
C23_ExpiredGameOrOtherNodeDoesNothing ==
  validateCall # NullOpt =>
    LET call == validateCall[1]
    IN /\ call.classname = WorldspawnClassname /\ call.game = "expired"
            => call.issues = << >> /\ ~call.gameUsed /\ m_lastMods = call.lastModsBefore
       /\ call.gameUsed => call.game = "live"
       /\ call.classname # WorldspawnClassname
            => call.issues = << >> /\ m_lastMods = call.lastModsBefore

\* C23 witness: a worldspawn node is validated after the game expired, with
\* mods that differ from the remembered ones and a search path in error.
C23_Witness ==
  /\ validateCall # NullOpt
  /\ validateCall[1].classname = WorldspawnClassname
  /\ validateCall[1].game = "expired"
  /\ validateCall[1].lastModsBefore # << >>
  /\ validateCall[1].mods # validateCall[1].lastModsBefore
  /\ validateCall[1].errors # << >>
  /\ validateCall[1].issues = << >>

\* the list that a validation compares the mods with: that of the previous
\* check of the search paths, the empty list when there was none
PreviousMods(call) == IF call.previousCheck = NullOpt THEN << >> ELSE call.previousCheck[1]

\* C24: a validation of a worldspawn node with a live game reports issues only
\* if the mods differ from those of the previous check of the search paths,
\* and then one issue per search path in error; with the same mods it reports
\* nothing, whatever the search paths in error, and m_lastMods always holds the
\* mods of the last check.
C24_IssuesOnlyWhenModsChanged ==
  validateCall # NullOpt =>
    LET call == validateCall[1]
    IN /\ call.classname = WorldspawnClassname /\ call.game = "live"
            => /\ call.issues # << >> => call.mods # PreviousMods(call)
               /\ call.mods = PreviousMods(call) => call.issues = << >>
               /\ call.mods # PreviousMods(call) => call.issues = MissingModIssues(call.errors)
       /\ m_lastMods = (IF call.completed = NullOpt THEN << >> ELSE call.completed[1])

\* C24 witness: the worldspawn node is validated again with the mods of the
\* previous check while a search path is still in error: no issue.
C24_Witness ==
  /\ validateCall # NullOpt
  /\ validateCall[1].classname = WorldspawnClassname
  /\ validateCall[1].game = "live"
  /\ validateCall[1].previousCheck = Some(validateCall[1].mods)
  /\ validateCall[1].errors # << >>
  /\ validateCall[1].issues = << >>

\* C25: a step that constructs a brush node from a brush, or clones the brush
\* node, makes a node with no selected face, a selected face count of zero and
\* otherwise the brush it was made from; a clone leaves the brush and the
\* count of the cloned node as they were.
C25_NewNodeHasNoSelectedFace ==
  [][ created' # created
        => LET new == created'[1]
           IN /\ NumSelected(new.node.m_brush) = 0
              /\ new.node.m_selectedFaceCount = 0
              /\ new.node.m_brush.bounds = new.from.bounds
              /\ new.op = "clone"
                   => /\ new.from = m_brush
                      /\ m_brush' = m_brush
                      /\ m_selectedFaceCount' = m_selectedFaceCount
    ]_vars

\* C25 witness: the brush node was cloned while two of its faces were
\* selected, and it still has them selected.
C25_Witness ==
  /\ created # NullOpt
  /\ created[1].op = "clone"
  /\ NumSelected(created[1].from) = 2
  /\ NumSelected(created[1].node.m_brush) = 0
  /\ m_brush = created[1].from
  /\ m_selectedFaceCount = 2

\* C26: the entity is selectable exactly if it has no child; a pick of the
\* entity with a child adds no hit; findNodesContaining on the entity with
\* children forwards to every child in order and does not put the entity in
\* the result; on the childless entity it forwards to nobody and puts the
\* entity in the result exactly if its logical bounds contain the point.
C26_EntityWithChildrenIsTransparent ==
  /\ EntityDoSelectable(children["E"]) <=> (children["E"] = << >>)
  /\ lastPick.node = "E" /\ lastPick.hasChildren => pickResult = lastPick.before
  /\ findCall # NullOpt =>
       LET call == findCall[1]
       IN IF call.kids # << >>
          THEN /\ call.forwarded = call.kids
               /\ \A i \in 1..Len(call.result) : call.result[i] # "E"
               /\ \A i \in 1..Len(call.result) : \E j \in 1..Len(call.kids) : call.result[i] = call.kids[j]
          ELSE /\ call.forwarded = << >>
               /\ call.result = (IF BoxContainsPoint(call.bounds, call.point) THEN <<"E">> ELSE << >>)

\* C26 witness: findNodesContaining on the entity with the patch and the brush
\* as children, at a point in both: the result is the two children in order,
\* while the entity's bounds contain the point too.
C26_Witness ==
  /\ findCall # NullOpt
  /\ findCall[1].kids = <<"P", "B">>
  /\ findCall[1].result = <<"P", "B">>
  /\ BoxContainsPoint(findCall[1].bounds, findCall[1].point)
  /\ ~EntityDoSelectable(children["E"])

\* C27: on every grid whose point count is rows times columns, the grids
\* without a point included, intersectsPatch reads no point outside of the
\* grid, and the bounds pointColumnCount - 1 and pointRowCount - 1 of the
\* loops it enters are not wrapped around.
C27_PatchReadsInRange ==
  answer # NullOpt =>
    LET g == query[1].grid[1]
        run == answer[1]
    IN /\ Len(g.points) = g.pointRowCount * g.pointColumnCount
       /\ ~run.outOfRange
       /\ run.loopsRun /\ g.pointRowCount > 0
            => RowLoopColumnBound(g) = g.pointColumnCount - 1
       /\ run.loopsRun /\ g.pointColumnCount > 0
            => ColumnLoopRowBound(g) = g.pointRowCount - 1

====
